---- MODULE Spec2Model ----
(***************************************************************************)
(* A model of flat_fluids: surface.py (Grid, Image: colour-similarity      *)
(* masking with connectivity pruning) and fluid.py (Array2D, Fluid:        *)
(* conserved -> primitive conversion).                                     *)
(*                                                                         *)
(* Python values are records tagged by "type":                             *)
(*   float    exact rational num/den (den = 0 stands for inf/nan)          *)
(*   ndarray  shape (tuple of ints) and data (the elements in row-major    *)
(*            order)                                                       *)
(*   Array2D  an instance of fluid.Array2D (value, dx, dy, shape)          *)
(*   raise    a raised exception, exc = "<class>: <message>"               *)
(*   None     the value None                                               *)
(* Floating-point rounding is not modelled: floats are exact rationals.    *)
(***************************************************************************)
EXTENDS Integers, Sequences, FiniteSets, TLC

VARIABLES
    pc,          \* which objects exist: "start", "Grid", "Image", "Fluid"
    shape,       \* Grid.shape
    scale,       \* Grid.scale
    valid,       \* Grid.valid
    dx,          \* Grid.dx
    dy,          \* Grid.dy
    cell_area,   \* Grid.cell_area
    image,       \* Image.image
    gamma,       \* Fluid.gamma
    density,     \* Fluid.density
    pressure,    \* Fluid.pressure
    x_velocity,  \* Fluid.x_velocity
    y_velocity,  \* Fluid.y_velocity
    op,          \* the last operation called
    args,        \* its arguments
    ret,         \* its return value (None when it raised or returns nothing)
    err          \* the exception it raised, "" when it returned

vars == <<pc, shape, scale, valid, dx, dy, cell_area, image, gamma, density,
          pressure, x_velocity, y_velocity, op, args, ret, err>>

gridVars == <<shape, scale, valid, dx, dy, cell_area>>
fluidVars == <<gamma, density, pressure, x_velocity, y_velocity>>

-----------------------------------------------------------------------------
(* Bounds of the model *)

\* An image or grid has at most MaxCells cells.
MaxCells == 4

\* A colour channel takes the values 0/ChannelScale .. ChannelScale/ChannelScale.
ChannelScale == 2

-----------------------------------------------------------------------------
(* Python values *)

None == [type |-> "None"]

Raise(exc) == [type |-> "raise", exc |-> exc]

IsRaise(v) == v.type = "raise"

Abs(n) == IF n < 0 THEN -n ELSE n

RECURSIVE GCD(_, _)
GCD(a, b) == IF b = 0 THEN a ELSE GCD(b, a % b)

\* The float num/den in lowest terms with a positive denominator.
Float(n, d) ==
    IF d = 0 THEN [type |-> "float", num |-> IF n > 0 THEN 1 ELSE IF n < 0 THEN -1 ELSE 0, den |-> 0]
    ELSE LET g == GCD(Abs(n), Abs(d))
             s == IF d < 0 THEN -1 ELSE 1
         IN [type |-> "float", num |-> s * (n \div g), den |-> s * (d \div g)]

FloatLeqZero(a) == a.den # 0 /\ a.num <= 0

FloatMul(a, b) == Float(a.num * b.num, a.den * b.den)
FloatDiv(a, b) == Float(a.num * b.den, a.den * b.num)
FloatAdd(a, b) == Float(a.num * b.den + b.num * a.den, a.den * b.den)
FloatSub(a, b) == Float(a.num * b.den - b.num * a.den, a.den * b.den)

\* The number of elements of an array of shape shp (at most three axes).
Size(shp) ==
    IF Len(shp) = 0 THEN 1
    ELSE IF Len(shp) = 1 THEN shp[1]
    ELSE IF Len(shp) = 2 THEN shp[1] * shp[2]
    ELSE shp[1] * shp[2] * shp[3]

\* The tuple <<f[1], ..., f[n]>> of a function on 1..n, each element computed
\* once.
Tuple(f) == SubSeq(f, 1, Len(f))

\* An ndarray holds its elements in a row-major buffer: data[k] is the k-th
\* element, k in 1..Size(shape).
NdArray(shp, data) == [type |-> "ndarray", shape |-> shp, data |-> Tuple(data)]

\* The 0-based index tuple of the k-th element of an array of shape shp (at
\* most two axes).
Unravel(shp, k) ==
    IF Len(shp) = 0 THEN <<>>
    ELSE IF Len(shp) = 1 THEN <<k - 1>>
    ELSE <<(k - 1) \div shp[2], (k - 1) % shp[2]>>

\* The place in the buffer of the element at the 0-based index tuple idx.
Ravel(shp, idx) ==
    IF Len(shp) = 0 THEN 1
    ELSE IF Len(shp) = 1 THEN idx[1] + 1
    ELSE idx[1] * shp[2] + idx[2] + 1

\* The index tuples of an array of shape shp.
Indices(shp) == {Unravel(shp, k) : k \in 1..Size(shp)}

\* np.full(shape, value)
Full(shp, value) == NdArray(shp, [k \in 1..Size(shp) |-> value])

Max(S) == CHOOSE m \in S : \A x \in S : x <= m
Min(S) == CHOOSE m \in S : \A x \in S : m <= x

-----------------------------------------------------------------------------
(* surface.py: Grid *)

\* Grid._cell_length: scale / max(shape); int or float division by zero
\* raises ZeroDivisionError before the validity test is reached.
_cell_length(shp, scl) ==
    LET max_length == Max({shp[i] : i \in 1..Len(shp)})
    IN IF max_length = 0 THEN Raise("ZeroDivisionError: float division by zero")
       ELSE LET cell_length == FloatDiv(scl, Float(max_length, 1))
            IN IF FloatLeqZero(cell_length)
               THEN Raise("ValueError: Cell length must be a positive number.")
               ELSE cell_length

\* Grid._cell_area
_cell_area(gdx, gdy) == FloatMul(gdx, gdy)

\* Grid.__init__: the fields of the new Grid, or the exception raised.
GridNew(shp, scl) ==
    LET length == _cell_length(shp, scl)
    IN IF IsRaise(length) THEN length
       ELSE [type |-> "Grid", shape |-> shp, scale |-> scl,
             valid |-> Full(shp, TRUE),
             dx |-> length, dy |-> length,
             cell_area |-> _cell_area(length, length)]

\* Grid._is_in: the loop returns False at the first axis whose position is
\* both negative and greater than the shape; otherwise True.
_is_in(shp, position) ==
    ~ \E idx \in 1..Len(position) :
          position[idx] < 0 /\ position[idx] > shp[idx]

-----------------------------------------------------------------------------
(* numpy helpers *)

\* A shape padded on the left with 1s to n axes (numpy broadcasting).
PadShape(s, n) ==
    Tuple([k \in 1..n |-> IF k <= n - Len(s) THEN 1 ELSE s[k - (n - Len(s))]])

Broadcastable(s1, s2) ==
    LET n == Max({Len(s1), Len(s2)})
        p1 == PadShape(s1, n)
        p2 == PadShape(s2, n)
    IN \A k \in 1..n : p1[k] = p2[k] \/ p1[k] = 1 \/ p2[k] = 1

BroadcastShape(s1, s2) ==
    IF s1 = s2 \/ Len(s2) = 0 THEN s1
    ELSE IF Len(s1) = 0 THEN s2
    ELSE LET n == Max({Len(s1), Len(s2)})
             p1 == PadShape(s1, n)
             p2 == PadShape(s2, n)
         IN Tuple([k \in 1..n |-> IF p1[k] = 1 THEN p2[k] ELSE p1[k]])

\* The place, in the buffer of an operand of shape s, of the element that
\* the broadcast result's k-th element (result shape sp) reads.
BIndex(k, sp, s) ==
    IF s = sp THEN k
    ELSE IF Len(s) = 0 THEN 1
    ELSE LET idx == Unravel(sp, k)
         IN Ravel(s, Tuple([a \in 1..Len(s) |->
                               IF s[a] = 1 THEN 0 ELSE idx[a + Len(sp) - Len(s)]]))

\* One axis of a numpy index: negative indices count from the end; -1 when
\* the index is out of range (numpy raises IndexError).
NormIndex(i, n) ==
    IF 0 <= i /\ i < n THEN i
    ELSE IF -n <= i /\ i < 0 THEN i + n
    ELSE -1

\* arr[position] for a tuple of integers indexing the leading axes.
IndexInRange(shp, position) ==
    /\ Len(position) <= Len(shp)
    /\ \A k \in 1..Len(position) : NormIndex(position[k], shp[k]) >= 0

NormPosition(shp, position) ==
    Tuple([k \in 1..Len(position) |-> NormIndex(position[k], shp[k])])

-----------------------------------------------------------------------------
(* surface.py: validated value types *)

\* A colour array has shape = spatial shape + (3,); its buffer holds one
\* triple of channels per spatial cell, a channel c standing for
\* c / ChannelScale.
Spatial(shp) == SubSeq(shp, 1, Len(shp) - 1)

ColourArray(sp, data) == NdArray(sp \o <<3>>, data)

\* DecimalFraction.__new__ on an array of channels.
DecimalFractionRGB(value) ==
    IF \E i \in DOMAIN value.data : \E k \in 1..3 : value.data[i][k] < 0
    THEN Raise("ValueError: Value is less than zero.")
    ELSE IF \E i \in DOMAIN value.data : \E k \in 1..3 : value.data[i][k] > ChannelScale
    THEN Raise("ValueError: Value is greater than one.")
    ELSE value

\* RGBColour.__new__
RGBColour(value) ==
    IF Len(value.shape) # 1
    THEN Raise("ValueError: Value must only contain a single dimension.")
    ELSE IF value.shape[1] # 3
    THEN Raise("ValueError: Value must be contain 3 elements.")
    ELSE DecimalFractionRGB(value)

\* Mask2D.__new__ (a Boolean array holds no NaN)
Mask2D(value) ==
    IF Len(value.shape) # 2
    THEN Raise("ValueError: Value must contain two dimensions.")
    ELSE value

-----------------------------------------------------------------------------
(* surface.py: Image._colour_diff *)

\* A colour difference sqrt(sum)/3 is held as the integer rad with
\* sum = rad / RadScale: differences are in units of 1/ChannelScale and
\* weights in units of 1/(2*ChannelScale).
RadScale == 2 * ChannelScale * ChannelScale * ChannelScale

\* rgb_diff = rgb1 - rgb2, in units of 1/ChannelScale
RgbDiff(c1, c2) == <<c1[1] - c2[1], c1[2] - c2[2], c1[3] - c2[3]>>

\* The mean taken of the first colour alone.
RgbMeanFirst(c1, c2) == <<c1[1] + c1[1], c1[2] + c1[2], c1[3] + c1[3]>>

\* rgb_mean = np.mean(np.broadcast_arrays(rgb1, rgb2), axis=0), in units of
\* 1/(2*ChannelScale)
RgbMean(c1, c2) == <<c1[1] + c2[1], c1[2] + c2[2], c1[3] + c2[3]>>

\* weights = [2 + mean_r, 4, 3 - mean_r], in units of 1/(2*ChannelScale)
Weights(rgb_mean) ==
    <<4 * ChannelScale + rgb_mean[1], 8 * ChannelScale, 6 * ChannelScale - rgb_mean[1]>>

\* np.sum(np.square(rgb_diff) * weights, axis=-1), in units of 1/RadScale
WeightedSquares(rgb_diff, weights) ==
    rgb_diff[1] * rgb_diff[1] * weights[1]
    + rgb_diff[2] * rgb_diff[2] * weights[2]
    + rgb_diff[3] * rgb_diff[3] * weights[3]

\* DecimalFraction.__new__ on an array of colour differences:
\* sqrt(rad/RadScale)/3 is never negative, and exceeds 1 iff rad > 9*RadScale.
DecimalFractionDiff(value) ==
    IF \E i \in DOMAIN value.data : value.data[i] < 0
    THEN Raise("ValueError: Value is less than zero.")
    ELSE IF \E i \in DOMAIN value.data : value.data[i] > 9 * RadScale
    THEN Raise("ValueError: Value is greater than one.")
    ELSE value

\* Image._colour_diff
_colour_diff(rgb1, rgb2) ==
    LET s1 == Spatial(rgb1.shape)
        s2 == Spatial(rgb2.shape)
    IN IF ~Broadcastable(s1, s2)
       THEN Raise("ValueError: operands could not be broadcast together")
       ELSE LET sp == BroadcastShape(s1, s2)
                diff == [k \in 1..Size(sp) |->
                            LET c1 == rgb1.data[BIndex(k, sp, s1)]
                                c2 == rgb2.data[BIndex(k, sp, s2)]
                            IN WeightedSquares(RgbDiff(c1, c2), Weights(RgbMean(c1, c2)))]
            IN DecimalFractionDiff(NdArray(sp, diff))

\* The comparison with its sides exchanged: colour_diff >= tolerance.
LessEqualMirrored(colour_diff, tolerance) ==
    NdArray(colour_diff.shape,
            [i \in DOMAIN colour_diff.data |->
                \/ tolerance.num <= 0
                \/ colour_diff.data[i] * tolerance.den * tolerance.den
                       >= 9 * RadScale * tolerance.num * tolerance.num])

\* colour_diff <= tolerance, elementwise: sqrt(rad/RadScale)/3 <= num/den
LessEqual(colour_diff, tolerance) ==
    NdArray(colour_diff.shape,
            [i \in DOMAIN colour_diff.data |->
                /\ tolerance.num >= 0
                /\ colour_diff.data[i] * tolerance.den * tolerance.den
                       <= 9 * RadScale * tolerance.num * tolerance.num])

-----------------------------------------------------------------------------
(* surface.py: Image._remove_disconnected *)

\* A connection pattern is the set of offsets it joins a cell to.  The cross:
\* edge neighbours only.
CrossPattern == {<<-1, 0>>, <<0, -1>>, <<0, 0>>, <<0, 1>>, <<1, 0>>}

\* pattern = np.full([3, 3], True)
pattern == {<<di, dj>> : di \in -1..1, dj \in -1..1}

\* The cells (places in the buffer) that the structure joins cell c to.
Joined(shp, c, structure) ==
    LET at == Unravel(shp, c)
    IN {d \in 1..Size(shp) :
           LET to == Unravel(shp, d)
           IN <<to[1] - at[1], to[2] - at[2]>> \in structure}

\* One pass of label propagation: every True cell takes the least label
\* among the True cells it is joined to (joined[c] holds c itself).
Sweep(mask, joined, lab) ==
    Tuple([c \in 1..Len(lab) |->
              IF mask.data[c]
              THEN Min({lab[d] : d \in {e \in joined[c] : mask.data[e]}})
              ELSE 0])

RECURSIVE Settle(_, _, _)
Settle(mask, joined, lab) ==
    LET next == Sweep(mask, joined, lab)
    IN IF next = lab THEN lab ELSE Settle(mask, joined, next)

\* scipy.ndimage.label(mask, structure)[0]: False cells are 0, the connected
\* groups of True cells are numbered 1, 2, ... in raster order of their
\* first cell.
label(mask, structure) ==
    LET n == Size(mask.shape)
        joined == Tuple([c \in 1..n |-> Joined(mask.shape, c, structure)])
        first == Settle(mask, joined,
                        Tuple([c \in 1..n |-> IF mask.data[c] THEN c ELSE 0]))
        firsts == {first[c] : c \in 1..n} \ {0}
    IN NdArray(mask.shape,
               [c \in 1..n |->
                   IF first[c] = 0 THEN 0
                   ELSE Cardinality({f \in firsts : f <= first[c]})])

\* The group labelled 1, wherever the position lies.
FirstGroup(mask, position) ==
    LET group_mask == label(mask, pattern)
    IN Mask2D(NdArray(group_mask.shape,
                      [c \in DOMAIN group_mask.data |-> group_mask.data[c] = 1]))

\* Image._remove_disconnected: the cells whose label equals the label at the
\* position (0, the background's label, included).
_remove_disconnected(mask, position) ==
    LET group_mask == label(mask, pattern)
        at == group_mask.data[Ravel(group_mask.shape, NormPosition(group_mask.shape, position))]
    IN Mask2D(NdArray(group_mask.shape,
                      [c \in DOMAIN group_mask.data |-> group_mask.data[c] = at]))

-----------------------------------------------------------------------------
(* surface.py: Image._surface_mask, Image.update_validity_mask *)

\* self.image[position]
GetPixel(img, position) ==
    IF ~IndexInRange(img.shape, position)
    THEN Raise("IndexError: index is out of bounds")
    ELSE ColourArray(<<>>, <<img.data[Ravel(Spatial(img.shape), NormPosition(img.shape, position))]>>)

\* Image._surface_mask: the mask returned, or the exception raised.
_surface_mask(img, shp, position, tolerance) ==
    IF ~_is_in(shp, position)
    THEN Raise("ValueError: Invalid position selected in the image.")
    ELSE LET pixel == GetPixel(img, position)
         IN IF IsRaise(pixel) THEN pixel
            ELSE LET colour == RGBColour(pixel)
                 IN IF IsRaise(colour) THEN colour
                    ELSE LET colour_diff == _colour_diff(img, colour)
                         IN IF IsRaise(colour_diff) THEN colour_diff
                            ELSE LET colour_mask == Mask2D(LessEqual(colour_diff, tolerance))
                                 IN IF IsRaise(colour_mask) THEN colour_mask
                                    ELSE _remove_disconnected(colour_mask, position)

-----------------------------------------------------------------------------
(* fluid.py: arithmetic on Python values *)

\* np.shape(value): the shape of an ndarray; () for a float and for any
\* object that is no array, such as an Array2D.
NpShape(value) == IF value.type = "ndarray" THEN value.shape ELSE <<>>

\* One element of a float operation; a zero divisor inside an array gives
\* inf or nan (den = 0).
Scalar(name, x, y) ==
    IF name = "+" THEN FloatAdd(x, y)
    ELSE IF name = "-" THEN FloatSub(x, y)
    ELSE IF name = "*" THEN FloatMul(x, y)
    ELSE FloatDiv(x, y)

Elem(a, k) == IF a.type = "float" THEN a ELSE a.data[k]

\* x <name> y on operand values, for name in + - * /.  Array2D defines no
\* arithmetic methods and is no array, so an Array2D operand raises
\* TypeError.  Floats and ndarrays combine elementwise with broadcasting.
Operate(name, x, y) ==
    IF x.type = "Array2D" \/ y.type = "Array2D"
    THEN Raise("TypeError: unsupported operand type(s)")
    ELSE IF x.type = "float" /\ y.type = "float"
    THEN IF name = "/" /\ y.num = 0
         THEN Raise("ZeroDivisionError: float division by zero")
         ELSE Scalar(name, x, y)
    ELSE IF ~Broadcastable(NpShape(x), NpShape(y))
    THEN Raise("ValueError: operands could not be broadcast together")
    ELSE LET sp == BroadcastShape(NpShape(x), NpShape(y))
         IN NdArray(sp, [k \in 1..Size(sp) |->
                            Scalar(name, Elem(x, BIndex(k, sp, NpShape(x))),
                                         Elem(y, BIndex(k, sp, NpShape(y))))])

\* The expression a <name> b: Python evaluates each operand once, the left
\* one first, and an operand that raises ends the evaluation.
BinOp(name, a, b) ==
    CHOOSE r \in {IF IsRaise(x) THEN x ELSE IF IsRaise(y) THEN y ELSE Operate(name, x, y) :
                     x \in {a}, y \in {b}} : TRUE

\* a ** 2
Square(a) ==
    CHOOSE r \in {IF IsRaise(x) THEN x
                  ELSE IF x.type = "Array2D"
                  THEN Raise("TypeError: unsupported operand type(s)")
                  ELSE Operate("*", x, x) : x \in {a}} : TRUE

-----------------------------------------------------------------------------
(* fluid.py: Array2D, Fluid *)

\* Array2D.__init__: the new object, or the exception raised.  Only the
\* number of dimensions of value is tested.
Array2D(value, adx, ady) ==
    IF Len(NpShape(value)) # 2
    THEN Raise("ValueError: Value must contain two dimensions.")
    ELSE IF FloatLeqZero(adx) \/ FloatLeqZero(ady)
    THEN Raise("ValueError: Cell lengths must be a real positive number.")
    ELSE [type |-> "Array2D", value |-> value, dx |-> adx, dy |-> ady,
          shape |-> NpShape(value)]

\* Fluid.__array
__array(values) == Array2D(values, dx, dy)

\* Fluid.__create_flat_array
__create_flat_array(value) == __array(Full(shape, value))

\* Fluid._density
_density(mass) ==
    LET new == BinOp("/", mass, cell_area)
    IN IF IsRaise(new) THEN new ELSE __array(new)

\* Fluid._velocity
_velocity(momentum, rho) ==
    LET velocity == BinOp("/", momentum, BinOp("*", rho, cell_area))
    IN IF IsRaise(velocity) THEN velocity ELSE __array(velocity)

\* Fluid._pressure
_pressure(energy, rho, vx, vy) ==
    LET new == BinOp("*",
                     BinOp("-",
                           BinOp("/", energy, cell_area),
                           BinOp("*", BinOp("*", Float(1, 2), rho),
                                      BinOp("+", Square(vx), Square(vy)))),
                     BinOp("-", gamma, Float(1, 1)))
    IN IF IsRaise(new) THEN new ELSE __array(new)

\* The body of Fluid.update_primitive up to the assignments: the four new
\* arrays, or the first exception raised.  Each statement's value is bound
\* once and the later statements read it.
Primitive(mass, x_momentum, y_momentum, energy) ==
    CHOOSE result \in UNION {
        IF IsRaise(new_density) THEN {new_density}
        ELSE UNION {
            IF IsRaise(new_x_velocity) THEN {new_x_velocity}
            ELSE UNION {
                IF IsRaise(new_y_velocity) THEN {new_y_velocity}
                ELSE {IF IsRaise(new_pressure) THEN new_pressure
                      ELSE [type |-> "primitive",
                            density |-> new_density,
                            x_velocity |-> new_x_velocity,
                            y_velocity |-> new_y_velocity,
                            pressure |-> new_pressure] :
                         new_pressure \in {_pressure(energy, new_density,
                                                     new_x_velocity, new_y_velocity)}} :
                new_y_velocity \in {_velocity(y_momentum, new_density)}} :
            new_x_velocity \in {_velocity(x_momentum, new_density)}} :
        new_density \in {_density(mass)}} : TRUE

-----------------------------------------------------------------------------
(* Inputs *)

\* Shapes with at least one cell and at most MaxCells cells.
Shapes == {<<r, c>> : r \in 1..MaxCells, c \in 1..MaxCells} \ {s \in {<<r, c>> : r \in 1..MaxCells, c \in 1..MaxCells} : s[1] * s[2] > MaxCells}

\* Pure red and pure blue.
Palette == {<<ChannelScale, 0, 0>>, <<0, 0, ChannelScale>>}

\* Decoded images: every cell one of the palette's colours.
Images == UNION {{ColourArray(s, f) : f \in [1..Size(s) -> Palette]} : s \in Shapes}

\* Seed positions: every cell, and two positions outside the shape: both
\* components negative, and both components too large.
Positions(shp) ==
    IF Len(shp) # 2 THEN {}
    ELSE Indices(shp) \cup {<<-1, -1>>, <<shp[1], shp[2]>>}

\* The default tolerance of update_validity_mask.
DefaultTolerance == Float(1, 100)

\* Tolerances below, inside and above [0,1].
Tolerances == {Float(-1, 10), Float(0, 1), DefaultTolerance, Float(1, 1), Float(3, 2)}

\* Grid shapes: non-negative sizes, at most MaxCells cells, degenerate shapes
\* included.
GridShapes ==
    {s \in {<<r, c>> : r \in 0..MaxCells, c \in 0..MaxCells} : s[1] * s[2] <= MaxCells}

Scales == {Float(-1, 1), Float(0, 1), Float(1, 1), Float(2, 1)}

Gammas == {Float(5, 3), Float(7, 5)}

\* Primitive states (density, x and y velocity, pressure); the last is the
\* state a new Fluid holds.
PrimStates ==
    {[rho |-> Float(1, 1), vx |-> Float(0, 1), vy |-> Float(0, 1), p |-> Float(1, 1)],
     [rho |-> Float(2, 1), vx |-> Float(1, 1), vy |-> Float(-1, 2), p |-> Float(3, 1)],
     [rho |-> Float(6, 5), vx |-> Float(0, 1), vy |-> Float(0, 1), p |-> Float(4053, 4000)]}

\* The conserved quantities of one cell of area A in primitive state s:
\* mass = rho*A, momentum = rho*v*A, energy = (p/(g-1) + rho*(vx^2+vy^2)/2)*A.
Conserved(s, A, g) ==
    [mass |-> FloatMul(s.rho, A),
     x_momentum |-> FloatMul(FloatMul(s.rho, s.vx), A),
     y_momentum |-> FloatMul(FloatMul(s.rho, s.vy), A),
     energy |-> FloatMul(FloatAdd(FloatDiv(s.p, FloatSub(g, Float(1, 1))),
                                  FloatMul(FloatMul(Float(1, 2), s.rho),
                                           FloatAdd(FloatMul(s.vx, s.vx),
                                                    FloatMul(s.vy, s.vy)))),
                         A)]

\* A two-dimensional shape other than shp.
OtherShape(shp) == <<shp[1] + 1, shp[2]>>

\* The arguments of update_primitive that encode the uniform primitive state
\* s on the current grid: as plain ndarrays ("ndarray") or wrapped in Array2D
\* as the signature is annotated ("Array2D").
Uniform(v, form) ==
    IF form = "Array2D" THEN Array2D(Full(shape, v), dx, dy) ELSE Full(shape, v)

Encoding(s, form) ==
    LET c == Conserved(s, cell_area, gamma)
    IN [mass |-> Uniform(c.mass, form), x_momentum |-> Uniform(c.x_momentum, form),
        y_momentum |-> Uniform(c.y_momentum, form), energy |-> Uniform(c.energy, form)]

\* The same with one argument not shaped like the grid.
Misshapen(s, which) ==
    LET c == Conserved(s, cell_area, gamma)
        good == Encoding(s, "ndarray")
    IN IF which = "mass_other2d"
       THEN [good EXCEPT !.mass = Full(OtherShape(shape), c.mass)]
       ELSE IF which = "mass_1d"
       THEN [good EXCEPT !.mass = Full(<<shape[1]>>, c.mass)]
       ELSE IF which = "mass_float"
       THEN [good EXCEPT !.mass = c.mass]
       ELSE [good EXCEPT !.energy = Full(OtherShape(shape), c.energy)]

Forms == {"ndarray", "Array2D"}
Misshapes == {"mass_other2d", "mass_1d", "mass_float", "energy_other2d"}

ConservedInputs ==
    IF pc # "Fluid" THEN {}
    ELSE {Encoding(s, form) : s \in PrimStates, form \in Forms}
         \cup {Misshapen(s, which) : s \in PrimStates, which \in Misshapes}

\* Every colour with channels k / ChannelScale.
Colours ==
    {ColourArray(<<>>, <<c>>) :
        c \in {<<r, g, b>> : r \in 0..ChannelScale, g \in 0..ChannelScale, b \in 0..ChannelScale}}

\* Arguments of _colour_diff: two single colours, or a whole image and one
\* reference colour, in either order.
ColourPairs ==
    (Colours \X Colours) \cup (Images \X Colours) \cup (Colours \X Images)

-----------------------------------------------------------------------------
(* State machine *)

Init ==
    /\ pc = "start"
    /\ shape = <<>>
    /\ scale = None
    /\ valid = None
    /\ dx = None
    /\ dy = None
    /\ cell_area = None
    /\ image = None
    /\ gamma = None
    /\ density = None
    /\ pressure = None
    /\ x_velocity = None
    /\ y_velocity = None
    /\ op = "start"
    /\ args = None
    /\ ret = None
    /\ err = ""

\* Image.__init__ on a decoded image: Grid.__init__(image.shape[:2]) with the
\* default scale 1.0, then the image is stored.
ImageInit(img) ==
    /\ pc = "start"
    /\ LET grid == GridNew(SubSeq(img.shape, 1, 2), Float(1, 1))
       IN IF IsRaise(grid)
          THEN /\ err' = grid.exc
               /\ UNCHANGED <<pc, gridVars, image>>
          ELSE /\ err' = ""
               /\ pc' = "Image"
               /\ shape' = grid.shape
               /\ scale' = grid.scale
               /\ valid' = grid.valid
               /\ dx' = grid.dx
               /\ dy' = grid.dy
               /\ cell_area' = grid.cell_area
               /\ image' = img
    /\ op' = "Image.__init__"
    /\ args' = [image |-> img]
    /\ ret' = None
    /\ UNCHANGED fluidVars

\* Image.update_validity_mask
UpdateValidityMask(position, tolerance) ==
    /\ pc = "Image"
    /\ LET mask == _surface_mask(image, shape, position, tolerance)
       IN IF IsRaise(mask)
          THEN /\ err' = mask.exc
               /\ valid' = valid
          ELSE /\ err' = ""
               /\ valid' = mask
    /\ op' = "update_validity_mask"
    /\ args' = [position |-> position, tolerance |-> tolerance]
    /\ ret' = None
    /\ UNCHANGED <<pc, shape, scale, dx, dy, cell_area, image, fluidVars>>

\* Grid.__init__; a constructor that raises leaves no object behind.
GridInit(shp, scl) ==
    /\ pc = "start"
    /\ LET grid == GridNew(shp, scl)
       IN IF IsRaise(grid)
          THEN /\ err' = grid.exc
               /\ UNCHANGED <<pc, gridVars>>
          ELSE /\ err' = ""
               /\ pc' = "Grid"
               /\ shape' = grid.shape
               /\ scale' = grid.scale
               /\ valid' = grid.valid
               /\ dx' = grid.dx
               /\ dy' = grid.dy
               /\ cell_area' = grid.cell_area
    /\ op' = "Grid.__init__"
    /\ args' = [shape |-> shp, scale |-> scl]
    /\ ret' = None
    /\ UNCHANGED <<image, fluidVars>>

\* Grid._is_in
IsInCall(position) ==
    /\ pc \in {"Grid", "Fluid"}
    /\ op' = "_is_in"
    /\ args' = [position |-> position]
    /\ ret' = [type |-> "bool", value |-> _is_in(shape, position)]
    /\ err' = ""
    /\ UNCHANGED <<pc, gridVars, image, fluidVars>>

\* Fluid.__init__ on the grid: density 1.2, pressure 1.01325, velocities 0.
FluidInit(g) ==
    /\ pc = "Grid"
    /\ LET d == __create_flat_array(Float(6, 5))
           p == __create_flat_array(Float(4053, 4000))
           xv == __create_flat_array(Float(0, 1))
           yv == __create_flat_array(Float(0, 1))
       IN IF IsRaise(d)
          THEN /\ err' = d.exc
               /\ UNCHANGED <<pc, fluidVars>>
          ELSE /\ err' = ""
               /\ pc' = "Fluid"
               /\ gamma' = g
               /\ density' = d
               /\ pressure' = p
               /\ x_velocity' = xv
               /\ y_velocity' = yv
    /\ op' = "Fluid.__init__"
    /\ args' = [gamma |-> g]
    /\ ret' = None
    /\ UNCHANGED <<gridVars, image>>

\* Fluid.update_primitive: the four arrays are assigned only after all four
\* have been computed.
UpdatePrimitive(conserved) ==
    /\ pc = "Fluid"
    /\ \E new \in {Primitive(conserved.mass, conserved.x_momentum,
                              conserved.y_momentum, conserved.energy)} :
          IF IsRaise(new)
          THEN /\ err' = new.exc
               /\ UNCHANGED <<density, x_velocity, y_velocity, pressure>>
          ELSE /\ err' = ""
               /\ density' = new.density
               /\ x_velocity' = new.x_velocity
               /\ y_velocity' = new.y_velocity
               /\ pressure' = new.pressure
    /\ op' = "update_primitive"
    /\ args' = conserved
    /\ ret' = None
    /\ UNCHANGED <<pc, gridVars, image, gamma>>

\* Image._colour_diff (a static method), called once on a pair of arguments.
ColourDiffCall ==
    /\ op = "start"
    /\ \E pair \in ColourPairs :
           /\ LET diff == _colour_diff(pair[1], pair[2])
              IN IF IsRaise(diff)
                 THEN err' = diff.exc /\ ret' = None
                 ELSE err' = "" /\ ret' = diff
           /\ args' = [rgb1 |-> pair[1], rgb2 |-> pair[2]]
    /\ op' = "_colour_diff"
    /\ UNCHANGED <<pc, gridVars, image, fluidVars>>

\* Image._colour_diff called again with the two arguments exchanged.
ColourDiffSwapped ==
    /\ op = "_colour_diff"
    /\ LET diff == _colour_diff(args.rgb2, args.rgb1)
       IN IF IsRaise(diff)
          THEN err' = diff.exc /\ ret' = None
          ELSE err' = "" /\ ret' = diff
    /\ op' = "_colour_diff swapped"
    /\ args' = [rgb1 |-> args.rgb2, rgb2 |-> args.rgb1]
    /\ UNCHANGED <<pc, gridVars, image, fluidVars>>

Next ==
    \/ \E img \in Images : ImageInit(img)
    \/ \E position \in Positions(shape), tolerance \in Tolerances :
           UpdateValidityMask(position, tolerance)

\* The program of surface.py: an Image and its validity mask.
Spec == Init /\ [][Next]_vars

NextFluid ==
    \/ \E shp \in GridShapes, scl \in Scales : GridInit(shp, scl)
    \/ \E position \in Positions(shape) : IsInCall(position)
    \/ \E g \in Gammas : FluidInit(g)
    \/ \E conserved \in ConservedInputs : UpdatePrimitive(conserved)

\* The program of fluid.py: a Grid and a Fluid on it.
SpecFluid == Init /\ [][NextFluid]_vars

NextColour ==
    \/ ColourDiffCall
    \/ ColourDiffSwapped

\* The colour metric on its own.
SpecColour == Init /\ [][NextColour]_vars

-----------------------------------------------------------------------------
(* Vocabulary of the properties *)

\* 0 <= position[axis] < shape[axis] on every axis.
InBounds(shp, position) ==
    /\ Len(position) = Len(shp)
    /\ \A axis \in 1..Len(shp) : 0 <= position[axis] /\ position[axis] < shp[axis]

\* x <= y on floats; 0 <= x <= 1.
FloatLeq(x, y) == x.num * y.den <= y.num * x.den
InUnitInterval(x) == FloatLeq(Float(0, 1), x) /\ FloatLeq(x, Float(1, 1))

\* The exceptions that stand for the error kinds of the interface.
RangeError ==
    {"ValueError: Cell length must be a positive number.",
     "ValueError: Value is less than zero.",
     "ValueError: Value is greater than one."}
OutOfBounds == {"ValueError: Invalid position selected in the image."}
ShapeMismatch == {"ValueError: Value must contain two dimensions."}

\* The place of the seed in a mask's buffer.
SeedCell(shp, position) == Ravel(shp, position)

\* The raw threshold mask: the cells whose colour differs from the seed's
\* colour by at most the tolerance.
RawCells(img, position, tolerance) ==
    LET sp == Spatial(img.shape)
        seed_colour == ColourArray(<<>>, <<img.data[SeedCell(sp, position)]>>)
    IN {c \in 1..Size(sp) :
           LessEqual(_colour_diff(seed_colour, ColourArray(<<>>, <<img.data[c]>>)),
                     tolerance).data[1]}

\* Two different cells that share an edge or a corner.
Adjacent8(shp, c, d) ==
    LET a == Unravel(shp, c)
        b == Unravel(shp, d)
    IN /\ c # d
       /\ Abs(a[1] - b[1]) <= 1
       /\ Abs(a[2] - b[2]) <= 1

\* The cells of raw reachable from the cells of S by paths of adjacent cells
\* of raw.
RECURSIVE Reachable(_, _, _)
Reachable(shp, raw, S) ==
    LET T == S \cup {d \in raw : \E c \in S : Adjacent8(shp, c, d)}
    IN IF T = S THEN S ELSE Reachable(shp, raw, T)

\* The 8-connected component of the raw mask that contains the seed.
SeedComponent(img, position, tolerance) ==
    LET raw == RawCells(img, position, tolerance)
    IN Reachable(Spatial(img.shape), raw, {SeedCell(Spatial(img.shape), position)} \cap raw)

\* The last operation was update_validity_mask with a seed inside the grid.
UpdatedInBounds == op = "update_validity_mask" /\ InBounds(shape, args.position)

-----------------------------------------------------------------------------
(* Properties of surface.py, under Spec *)

\* C2: a call of update_validity_mask whose seed is not inside the grid's
\* shape fails with OutOfBounds and leaves the validity mask as it was.
C2_OutsideSeedRejected ==
    [][(op' = "update_validity_mask" /\ ~InBounds(shape', args'.position))
          => (err' \in OutOfBounds /\ valid' = valid)]_vars

\* C3: for an in-bounds seed and a tolerance in [0,1] the call succeeds and
\* the mask written is exactly the 8-connected component of the raw threshold
\* mask that contains the seed.
C3_MaskIsSeedComponent ==
    (UpdatedInBounds /\ InUnitInterval(args.tolerance))
        => /\ err = ""
           /\ valid.shape = shape
           /\ \A c \in 1..Size(shape) :
                  valid.data[c] <=> c \in SeedComponent(image, args.position, args.tolerance)

\* C3 witness: a mask was written that leaves out a colour-matching cell,
\* because that cell is not connected to the seed.
C3_Witness ==
    /\ UpdatedInBounds
    /\ InUnitInterval(args.tolerance)
    /\ err = ""
    /\ \E c \in RawCells(image, args.position, args.tolerance) : ~valid.data[c]
    /\ \E c \in 1..Size(shape) : c # SeedCell(shape, args.position) /\ valid.data[c]

\* C5: a call of update_validity_mask with a tolerance outside [0,1] fails
\* with RangeError and leaves the validity mask as it was.
C5_ToleranceOutsideUnitRejected ==
    [][(/\ op' = "update_validity_mask"
        /\ InBounds(shape', args'.position)
        /\ ~InUnitInterval(args'.tolerance))
          => (err' \in RangeError /\ valid' = valid)]_vars

\* C6: for a fixed image and in-bounds seed, every cell that is True in the
\* mask of a tolerance t1 in [0,1] is True in the mask written for any
\* tolerance t2 in [0,1] with t1 <= t2.
C6_ToleranceMonotone ==
    (UpdatedInBounds /\ InUnitInterval(args.tolerance))
        => /\ err = ""
           /\ \A t1 \in {t \in Tolerances : InUnitInterval(t) /\ FloatLeq(t, args.tolerance)} :
                  LET smaller == _surface_mask(image, shape, args.position, t1)
                  IN /\ ~IsRaise(smaller)
                     /\ \A c \in 1..Size(shape) : smaller.data[c] => valid.data[c]

\* C6 witness: the mask written for a tolerance holds a cell that the mask of
\* a smaller tolerance does not hold.
C6_Witness ==
    /\ UpdatedInBounds
    /\ InUnitInterval(args.tolerance)
    /\ err = ""
    /\ \E t1 \in {t \in Tolerances : InUnitInterval(t) /\ FloatLeq(t, args.tolerance)} :
           LET smaller == _surface_mask(image, shape, args.position, t1)
           IN /\ t1 # args.tolerance
              /\ ~IsRaise(smaller)
              /\ \E c \in 1..Size(shape) : valid.data[c] /\ ~smaller.data[c]

\* C7: for a seed inside the grid and a tolerance t >= 0 the call succeeds
\* and the mask written is True at the seed cell.
C7_SeedInMask ==
    (UpdatedInBounds /\ FloatLeq(Float(0, 1), args.tolerance))
        => /\ err = ""
           /\ valid.data[SeedCell(shape, args.position)]

\* C7 witness: a mask was written that is True at the seed and False
\* at a cell before it in raster order.
C7_Witness ==
    /\ UpdatedInBounds
    /\ FloatLeq(Float(0, 1), args.tolerance)
    /\ err = ""
    /\ valid.data[SeedCell(shape, args.position)]
    /\ \E c \in 1..Size(shape) : c < SeedCell(shape, args.position) /\ ~valid.data[c]

-----------------------------------------------------------------------------
(* Properties of the colour metric, under SpecColour *)

\* C10: colour_diff(a, b) = colour_diff(b, a) for colours with channels in
\* [0,1], for two single colours and for an image against one colour: the
\* call with the arguments exchanged succeeds like the first and returns the
\* same value.
C10_ColourDiffSymmetric ==
    [][op' = "_colour_diff swapped" => (err = "" /\ err' = "" /\ ret' = ret)]_vars

\* C10 witness: both calls were made on an image and a colour, and the
\* result holds a zero difference and a positive one.
C10_Witness ==
    /\ op = "_colour_diff swapped"
    /\ err = ""
    /\ Len(args.rgb1.shape) = 1
    /\ Len(args.rgb2.shape) = 3
    /\ \E i \in DOMAIN ret.data : ret.data[i] = 0
    /\ \E i \in DOMAIN ret.data : ret.data[i] > 0

-----------------------------------------------------------------------------
(* Properties of Grid and Fluid, under SpecFluid *)

\* C1: _is_in returns true if and only if 0 <= position[axis] < shape[axis]
\* on every axis.
C1_IsInIffInBounds ==
    op = "_is_in" => (ret.value <=> InBounds(shape, args.position))

\* The shape of an argument of update_primitive.
ShapeOf(value) == IF value.type = "float" THEN <<>> ELSE value.shape

\* C4: a call of update_primitive with a conserved array not shaped like the
\* grid fails with ShapeMismatch and leaves the four stored arrays as they
\* were.
C4_MisshapenRejected ==
    [][(/\ op' = "update_primitive"
        /\ \E q \in {"mass", "x_momentum", "y_momentum", "energy"} :
               ShapeOf(args'[q]) # shape)
          => (/\ err' \in ShapeMismatch
              /\ UNCHANGED <<density, x_velocity, y_velocity, pressure>>)]_vars

\* C8: Grid.__init__ fails with RangeError when the largest dimension is 0 or
\* scale / max(shape) is not strictly positive; otherwise it succeeds with
\* dx = dy = scale / max(shape) > 0, cell_area = dx*dy and an all-true
\* validity mask of the grid's shape.
C8_GridConstruction ==
    op = "Grid.__init__"
        => LET longest == Max({args.shape[1], args.shape[2]})
           IN IF longest = 0 \/ FloatLeqZero(args.scale)
              THEN err \in RangeError
              ELSE /\ err = ""
                   /\ dx = FloatDiv(args.scale, Float(longest, 1))
                   /\ dy = dx
                   /\ ~FloatLeqZero(dx)
                   /\ cell_area = FloatMul(dx, dy)
                   /\ valid = Full(args.shape, TRUE)

\* C9: update_primitive on the encoding of a primitive state (rho, vx, vy, p)
\* succeeds and leaves density, x_velocity, y_velocity and pressure equal to
\* rho, vx, vy and p in every cell.
C9_RoundTrip ==
    \A s \in PrimStates, form \in Forms :
        (op = "update_primitive" /\ args = Encoding(s, form))
            => /\ err = ""
               /\ density.value = Full(shape, s.rho)
               /\ x_velocity.value = Full(shape, s.vx)
               /\ y_velocity.value = Full(shape, s.vy)
               /\ pressure.value = Full(shape, s.p)

=============================================================================
